---------------------------- MODULE Spec2Model ----------------------------
(***************************************************************************)
(* A model of deepchem/feat/graph_data.py: the GraphData container, its    *)
(* construction-time validation, and BatchGraphData, which merges a list   *)
(* of graphs into one graph with a node -> source-graph index vector.      *)
(*                                                                         *)
(* Arrays live in a heap (a sequence of array values addressed by their    *)
(* position), and records hold references, as Python objects do: whether  *)
(* an operation writes into an existing array or allocates a new one is    *)
(* visible in the model.                                                   *)
(***************************************************************************)
EXTENDS Integers, Sequences, FiniteSets, TLC

(***************************************************************************)
(* Bounds of the model.                                                    *)
(***************************************************************************)
MaxGraphs == 3
MaxNodes == 2
MaxEdges == 1

VARIABLES
  heap,    \* the arrays allocated so far; a reference is an index into heap
  graphs,  \* the caller's list of successfully constructed GraphData
  batch,   \* the BatchGraphData built from graphs, or NoRecord
  raised,  \* the exception the last call raised, or "none"
  args,    \* the arguments (references) of the last GraphData(...) call
  pc       \* what the caller has done so far

vars == <<heap, graphs, batch, raised, args, pc>>

(***************************************************************************)
(* Python values.  None is the null reference; every other value is an     *)
(* object in the heap.  An ndarray has a dtype, a shape and its data: a    *)
(* sequence of scalars when 1-D, a sequence of rows when 2-D.  A "list"    *)
(* stands for any argument that is not an ndarray.                         *)
(***************************************************************************)
None == 0

NoneObj == [kind |-> "None", dtype |-> "", shape |-> <<>>, data |-> <<>>]

ListObj == [kind |-> "list", dtype |-> "", shape |-> <<>>, data |-> <<>>]

ndarray(dtype, shape, data) ==
  [kind |-> "ndarray", dtype |-> dtype, shape |-> shape, data |-> data]

Deref(h, r) == IF r = None THEN NoneObj ELSE h[r]

isinstance_ndarray(h, r) == Deref(h, r).kind = "ndarray"

ndim(a) == Len(a.shape)

(***************************************************************************)
(* The result of a call: either a value, or a raised exception.  The heap  *)
(* after the call is part of the result.                                   *)
(***************************************************************************)
NoRecord == [kind |-> "NoRecord"]

Raise(h, exc) == [ok |-> FALSE, exc |-> exc, heap |-> h, rec |-> NoRecord]

Return(h, rec) == [ok |-> TRUE, exc |-> "none", heap |-> h, rec |-> rec]


(***************************************************************************)
(* Sequence helpers (Python's sum and list concatenation).                 *)
(***************************************************************************)
RECURSIVE SumSeq(_)
SumSeq(s) == IF s = <<>> THEN 0 ELSE Head(s) + SumSeq(Tail(s))

RECURSIVE Concat(_)
Concat(ss) == IF ss = <<>> THEN <<>> ELSE Head(ss) \o Concat(Tail(ss))

(***************************************************************************)
(* The numpy operations the module calls, on array values.                 *)
(***************************************************************************)
\* np.atleast_2d, which vstack applies to every element: a 1-D array of k
\* entries becomes one row of k columns; None becomes a 1 x 1 object array.
atleast_2d(a) ==
  IF a.kind = "None" THEN ndarray("object", <<1, 1>>, <<<<"None">>>>)
  ELSE IF ndim(a) = 1 THEN ndarray(a.dtype, <<1, a.shape[1]>>, <<a.data>>)
  ELSE a

\* numpy's type promotion for a concatenation.
result_type(arrs) ==
  IF \A i \in DOMAIN arrs : arrs[i].dtype = arrs[1].dtype THEN arrs[1].dtype
  ELSE IF \E i \in DOMAIN arrs : arrs[i].dtype = "object" THEN "object"
  ELSE "float"

\* np.vstack raises ValueError on an empty list and when the column counts
\* of its (at least 2-D) elements differ.
vstack_ok(arrs) ==
  /\ Len(arrs) > 0
  /\ \A i \in DOMAIN arrs :
       atleast_2d(arrs[i]).shape[2] = atleast_2d(arrs[1]).shape[2]

\* np.vstack: a new array holding the rows of the elements, in order.
np_vstack(arrs) ==
  LET a2 == [i \in DOMAIN arrs |-> atleast_2d(arrs[i])]
  IN ndarray(result_type(a2),
             <<SumSeq([i \in DOMAIN a2 |-> a2[i].shape[1]]), a2[1].shape[2]>>,
             Concat([i \in DOMAIN a2 |-> a2[i].data]))

\* np.hstack of 2-D arrays raises ValueError on an empty list and when the
\* row counts differ.
hstack_ok(arrs) ==
  /\ Len(arrs) > 0
  /\ \A i \in DOMAIN arrs : ndim(arrs[i]) = 2 /\ arrs[i].shape[1] = arrs[1].shape[1]

\* np.hstack of 2-D arrays: a new array whose row r is the elements' rows r,
\* joined in order.
np_hstack(arrs) ==
  ndarray(result_type(arrs),
          <<arrs[1].shape[1], SumSeq([i \in DOMAIN arrs |-> arrs[i].shape[2]])>>,
          [r \in 1..arrs[1].shape[1] |->
             Concat([i \in DOMAIN arrs |-> arrs[i].data[r]])])

\* ndarray.astype(int): a new array with the same entries and dtype int.
astype_int(a) == [a EXCEPT !.dtype = "int"]

\* The value of `a + k` for a 2-D array a and a Python int k.
PlusScalar(a, k) ==
  [a EXCEPT !.data = [r \in DOMAIN a.data |->
                        [c \in DOMAIN a.data[r] |-> a.data[r][c] + k]]]

\* An in-place `a += k`: the array behind the reference is overwritten and
\* the same reference is the result.
ndarray_iadd(h, r, k) ==
  [heap |-> [h EXCEPT ![r] = PlusScalar(h[r], k)], ref |-> r]

\* `graph.edge_index + prev_num_node` allocates its result: the operand is
\* left as it was.
ndarray_add(h, r, k) ==
  [heap |-> Append(h, PlusScalar(h[r], k)), ref |-> Len(h) + 1]

(***************************************************************************)
(* GraphData.__init__                                                      *)
(***************************************************************************)
\* edge_index.shape[0] != 2 is rejected.
EdgeIndexRowsOk(ei) == ei.shape[1] = 2

\* A variant that compares with the other axis of edge_index.
EdgeFeatureRowsWrongAxis(ei, ef) == ei.shape[1] = ef.shape[1]

\* edge_index.shape[1] != edge_features.shape[0] is rejected.
EdgeFeatureRowsOk(ei, ef) == ei.shape[2] = ef.shape[1]

\* A variant that reads the other axis of edge_index.
NumEdgesWrongAxis(ei) == ei.shape[1]

\* self.num_edges = edge_index.shape[1]
NumEdges(ei) == ei.shape[2]

\* An attribute that was never assigned.
Undefined == "undefined"

\* The guard of the num_edge_features assignment tests node_features, which
\* is never None at that point.
NumEdgeFeaturesGuard(node_features, edge_features) == node_features # None

\* The constructor's arguments are references; the result is the record or
\* the exception raised.  A plain GraphData has no graph_index attribute
\* (None here).
GraphData__init__(h, node_features, edge_index, edge_features, graph_features) ==
  LET nf == Deref(h, node_features)
      ei == Deref(h, edge_index)
      ef == Deref(h, edge_features)
  IN
  IF ~isinstance_ndarray(h, node_features) THEN Raise(h, "ValueError")
  ELSE IF ~isinstance_ndarray(h, edge_index) THEN Raise(h, "ValueError")
  ELSE IF ei.dtype # "int" THEN Raise(h, "ValueError")
  ELSE IF ~EdgeIndexRowsOk(ei) THEN Raise(h, "ValueError")
  ELSE IF edge_features # None /\ ~isinstance_ndarray(h, edge_features)
    THEN Raise(h, "ValueError")
  ELSE IF edge_features # None /\ ndim(ei) < 2
    THEN Raise(h, "IndexError")       \* edge_index.shape[1] of a 1-D array
  ELSE IF edge_features # None /\ ~EdgeFeatureRowsOk(ei, ef)
    THEN Raise(h, "ValueError")
  ELSE IF graph_features # None /\ ~isinstance_ndarray(h, graph_features)
    THEN Raise(h, "ValueError")
  ELSE IF ndim(nf) # 2
    THEN Raise(h, "ValueError")       \* unpacking node_features.shape
  ELSE IF ndim(ei) < 2
    THEN Raise(h, "IndexError")       \* edge_index.shape[1]
  ELSE IF NumEdgeFeaturesGuard(node_features, edge_features)
          /\ edge_features = None
    THEN Raise(h, "AttributeError")   \* None has no attribute shape
  ELSE IF NumEdgeFeaturesGuard(node_features, edge_features) /\ ndim(ef) < 2
    THEN Raise(h, "IndexError")       \* edge_features.shape[1]
  ELSE Return(h, [kind |-> "GraphData",
                  node_features |-> node_features,
                  edge_index |-> edge_index,
                  edge_features |-> edge_features,
                  graph_features |-> graph_features,
                  num_nodes |-> nf.shape[1],
                  num_node_features |-> nf.shape[2],
                  num_edges |-> NumEdges(ei),
                  num_edge_features |->
                    IF NumEdgeFeaturesGuard(node_features, edge_features)
                    THEN ef.shape[2] ELSE Undefined,
                  graph_index |-> None])

(***************************************************************************)
(* BatchGraphData.__init__                                                 *)
(***************************************************************************)
\* A variant that pairs every graph with its own node count,
\* zip(num_nodes_list, graphs).
PrevNumNodesOwn(num_nodes_list) == num_nodes_list

\* zip([0] + num_nodes_list[:-1], graphs): the number added to the edge
\* index of graph i is the node count of graph i-1 (0 for the first graph).
PrevNumNodes(num_nodes_list) ==
  <<0>> \o SubSeq(num_nodes_list, 1, Len(num_nodes_list) - 1)

\* The list comprehension [graph.edge_index + prev_num_node ...], from the
\* i-th graph on: each sum is evaluated in turn, and its result is a
\* reference into the heap the evaluation leaves behind.
RECURSIVE ShiftedEdgeIndex(_, _, _, _)
ShiftedEdgeIndex(h, gs, prev, i) ==
  IF i > Len(gs) THEN [heap |-> h, refs |-> <<>>]
  ELSE LET sum  == ndarray_add(h, gs[i].edge_index, prev[i])
           rest == ShiftedEdgeIndex(sum.heap, gs, prev, i + 1)
       IN [heap |-> rest.heap, refs |-> <<sum.ref>> \o rest.refs]

\* A variant that numbers the graphs from 1, enumerate(num_nodes_list, 1).
GraphIndexListOneBased(num_nodes_list) ==
  Concat([i \in DOMAIN num_nodes_list |->
            [k \in 1..num_nodes_list[i] |-> i]])

\* A variant that gives a graph without nodes one entry all the same,
\* [i] * max(num_nodes, 1).
GraphIndexListPadded(num_nodes_list) ==
  Concat([i \in DOMAIN num_nodes_list |->
            [k \in 1..(IF num_nodes_list[i] = 0 THEN 1 ELSE num_nodes_list[i])
               |-> i - 1]])

\* for i, num_nodes in enumerate(num_nodes_list):
\*   graph_index.extend([i] * num_nodes)
GraphIndexList(num_nodes_list) ==
  Concat([i \in DOMAIN num_nodes_list |->
            [k \in 1..num_nodes_list[i] |-> i - 1]])

\* np.array(graph_index, dtype=int)
np_array_int(list) == ndarray("int", <<Len(list)>>, list)

\* The optional features are stacked when the FIRST graph has them.
StackOptional(first) == first # None

BatchGraphData__init__(h, gs) ==
  LET n        == Len(gs)
      nfs      == [i \in 1..n |-> Deref(h, gs[i].node_features)]
      efs      == [i \in 1..n |-> Deref(h, gs[i].edge_features)]
      gfs      == [i \in 1..n |-> Deref(h, gs[i].graph_features)]
  IN
  IF ~vstack_ok(nfs) THEN Raise(h, "ValueError")
  ELSE
  LET h1    == Append(h, np_vstack(nfs))
      r_nf  == Len(h1)
      hasEf == StackOptional(gs[1].edge_features)
      hasGf == StackOptional(gs[1].graph_features)
  IN
  IF hasEf /\ ~vstack_ok(efs) THEN Raise(h1, "ValueError")
  ELSE
  LET h2   == IF hasEf THEN Append(h1, np_vstack(efs)) ELSE h1
      r_ef == IF hasEf THEN Len(h2) ELSE None
  IN
  IF hasGf /\ ~vstack_ok(gfs) THEN Raise(h2, "ValueError")
  ELSE
  LET h3   == IF hasGf THEN Append(h2, np_vstack(gfs)) ELSE h2
      r_gf == IF hasGf THEN Len(h3) ELSE None
      num_nodes_list == [i \in 1..n |-> gs[i].num_nodes]
      sums == ShiftedEdgeIndex(h3, gs, PrevNumNodes(num_nodes_list), 1)
      h4   == sums.heap
      eis  == [i \in 1..n |-> h4[sums.refs[i]]]
  IN
  IF ~hstack_ok(eis) THEN Raise(h4, "ValueError")
  ELSE
  LET h5   == Append(Append(h4, np_hstack(eis)), astype_int(np_hstack(eis)))
      r_ei == Len(h5)
      h6   == Append(h5, np_array_int(GraphIndexList(num_nodes_list)))
      r_gi == Len(h6)
      super == GraphData__init__(h6, r_nf, r_ei, r_ef, r_gf)
  IN
  IF ~super.ok THEN super
  ELSE Return(h6, [super.rec EXCEPT !.kind = "BatchGraphData",
                                    !.graph_index = r_gi])

(***************************************************************************)
(* The arrays callers pass in.                                             *)
(***************************************************************************)
FeatureWidths == {1, 2}

\* np.arange(n * f).reshape(n, f), as floats: a feature matrix whose entries
\* are all different.
FeatureMatrix(n, f) ==
  ndarray("float", <<n, f>>,
          [r \in 1..n |-> [c \in 1..f |-> (r - 1) * f + (c - 1)]])

\* np.arange(k), as floats.
FeatureVector(k) == ndarray("float", <<k>>, [c \in 1..k |-> c - 1])

\* np.full((rows, e), v)
FullMatrix(dtype, rows, e, v) ==
  ndarray(dtype, <<rows, e>>, [r \in 1..rows |-> [c \in 1..e |-> v]])

\* The edges of a ring over n nodes, the first e of them: edge j goes from
\* node j-1 to node j (mod n).  All entries lie in [0, n).
RingEdgeIndex(n, e) ==
  ndarray("int", <<2, e>>,
          << [j \in 1..e |-> (j - 1) % n], [j \in 1..e |-> j % n] >>)

\* Arguments of every kind the constructor tells apart.
NodeFeatureArgs ==
  {ListObj, FeatureVector(2)}
    \cup {FeatureMatrix(n, f) : n \in 0..MaxNodes, f \in FeatureWidths}

EdgeIndexArgs ==
  {ListObj, FullMatrix("float", 2, 1, 0), ndarray("int", <<2>>, <<0, 0>>)}
    \cup {FullMatrix("int", rows, 0, 0) : rows \in 1..3}
    \cup {FullMatrix("int", rows, e, v) :
            rows \in 1..3, e \in 1..MaxEdges, v \in (-1)..MaxNodes}

EdgeFeatureArgs ==
  {NoneObj, ListObj}
    \cup {FeatureVector(e) : e \in 0..MaxEdges}
    \cup {FeatureMatrix(e, 1) : e \in 0..(MaxEdges + 1)}

GraphFeatureArgs == {NoneObj, ListObj, FeatureVector(2), FeatureMatrix(1, 2)}

\* The caller's arguments enter the heap; None is passed as the null
\* reference.
RECURSIVE AllocArgs(_, _)
AllocArgs(h, objs) ==
  IF objs = <<>> THEN [heap |-> h, refs |-> <<>>]
  ELSE IF Head(objs).kind = "None"
    THEN LET rest == AllocArgs(h, Tail(objs))
         IN [heap |-> rest.heap, refs |-> <<None>> \o rest.refs]
    ELSE LET rest == AllocArgs(Append(h, Head(objs)), Tail(objs))
         IN [heap |-> rest.heap, refs |-> <<Len(h) + 1>> \o rest.refs]

(***************************************************************************)
(* The state machine: callers construct graphs and batch them.             *)
(***************************************************************************)
Init ==
  /\ heap = <<>>
  /\ graphs = <<>>
  /\ batch = NoRecord
  /\ raised = "none"
  /\ args = <<>>
  /\ pc = "start"

\* GraphData(node_features, edge_index, edge_features, graph_features): on
\* success the caller keeps the record; on an exception there is no record.
CallGraphData(nf, ei, ef, gf) ==
  LET a   == AllocArgs(heap, <<nf, ei, ef, gf>>)
      res == GraphData__init__(a.heap, a.refs[1], a.refs[2], a.refs[3], a.refs[4])
  IN /\ heap' = res.heap
     /\ args' = a.refs
     /\ raised' = res.exc
     /\ graphs' = IF res.ok THEN Append(graphs, res.rec) ELSE graphs
     /\ UNCHANGED batch

\* A caller constructs one GraphData from arbitrary arguments.
Construct ==
  /\ pc = "start"
  /\ \E nf \in NodeFeatureArgs, ei \in EdgeIndexArgs,
        ef \in EdgeFeatureArgs, gf \in GraphFeatureArgs :
       CallGraphData(nf, ei, ef, gf)
  /\ pc' = "single"

\* A featurizer adds one more well-formed graph to its list: n nodes with f
\* features each, e ring edges with one feature each, no graph features.
AddGraph ==
  /\ pc \in {"start", "list"}
  /\ Len(graphs) < MaxGraphs
  /\ \E n \in 0..MaxNodes, f \in FeatureWidths, e \in 0..MaxEdges :
       /\ n = 0 => e = 0
       /\ CallGraphData(FeatureMatrix(n, f), RingEdgeIndex(n, e),
                        FeatureMatrix(e, 1), NoneObj)
  /\ pc' = "list"

\* BatchGraphData(graphs)
MakeBatch ==
  /\ pc # "done"
  /\ LET res == BatchGraphData__init__(heap, graphs)
     IN /\ heap' = res.heap
        /\ batch' = res.rec
        /\ raised' = res.exc
  /\ pc' = "done"
  /\ UNCHANGED <<graphs, args>>

Next == Construct \/ AddGraph \/ MakeBatch

Spec == Init /\ [][Next]_vars

(***************************************************************************)
(* Vocabulary of the properties.                                           *)
(***************************************************************************)
\* BatchGraphData(graphs) has returned a record.
BatchOk == pc = "done" /\ raised = "none"

\* The array behind a reference.
Arr(r) == heap[r]

\* The number of nodes of the graphs before the i-th one.
NodesBefore(i) == SumSeq([j \in 1..(i - 1) |-> graphs[j].num_nodes])

\* The number of edges of the graphs before the i-th one.
EdgesBefore(i) == SumSeq([j \in 1..(i - 1) |-> graphs[j].num_edges])

\* Every entry of the graph's edge_index is one of its nodes.
EdgesInRange(g) ==
  \A r \in 1..2 : \A c \in 1..Arr(g.edge_index).shape[2] :
    /\ Arr(g.edge_index).data[r][c] >= 0
    /\ Arr(g.edge_index).data[r][c] < g.num_nodes

\* Equal in contents and in shape.
SameArray(x, y) == x.shape = y.shape /\ x.data = y.data

Values(seq) == {seq[k] : k \in DOMAIN seq}

(***************************************************************************)
(* C1.  The batched edge_index is the inputs' edge_index matrices joined   *)
(* column-wise in input order, the entries of graph i raised by the total  *)
(* node count of graphs 0..i-1.                                            *)
(***************************************************************************)
C1_EdgeIndexCumulativeOffsets ==
  BatchOk =>
    Arr(batch.edge_index).data =
      [r \in 1..2 |->
         Concat([i \in 1..Len(graphs) |->
                   [c \in 1..graphs[i].num_edges |->
                      Arr(graphs[i].edge_index).data[r][c] + NodesBefore(i)]])]

(***************************************************************************)
(* C2.  When every input edge is in range, every batched edge that came    *)
(* from graph i is in range of the batched graph and joins two nodes that  *)
(* graph_index assigns to graph i.                                         *)
(***************************************************************************)
C2_DisjointUnion ==
  (BatchOk /\ \A i \in 1..Len(graphs) : EdgesInRange(graphs[i])) =>
    \A i \in 1..Len(graphs) : \A c \in 1..graphs[i].num_edges : \A r \in 1..2 :
      LET node == Arr(batch.edge_index).data[r][EdgesBefore(i) + c]
      IN /\ node >= 0
         /\ node < batch.num_nodes
         /\ Arr(batch.graph_index).data[node + 1] = i - 1

(***************************************************************************)
(* C3.  A GraphData is constructed from a 2-D node_features and a 2 x E    *)
(* integer edge_index with no edge features: the call returns a record     *)
(* with the node and edge counts of the arrays.                            *)
(***************************************************************************)
C3_ConstructWithoutEdgeFeatures ==
  ( /\ pc = "single"
    /\ args[3] = None /\ args[4] = None
    /\ Arr(args[1]).kind = "ndarray" /\ ndim(Arr(args[1])) = 2
    /\ Arr(args[2]).kind = "ndarray" /\ Arr(args[2]).dtype = "int"
    /\ ndim(Arr(args[2])) = 2 /\ Arr(args[2]).shape[1] = 2 ) =>
    /\ raised = "none"
    /\ Len(graphs) = 1
    /\ graphs[1].num_nodes = Arr(args[1]).shape[1]
    /\ graphs[1].num_edges = Arr(args[2]).shape[2]

(***************************************************************************)
(* C4.  graph_index has one entry per batched node; entry k is the input   *)
(* position of the graph that owns batched node k: the nodes of graph i    *)
(* are the block after the nodes of graphs 0..i-1.  It is non-decreasing.  *)
(***************************************************************************)
C4_GraphIndexBlocks ==
  BatchOk =>
    LET gi == Arr(batch.graph_index)
    IN /\ gi.shape = <<batch.num_nodes>>
       /\ Len(gi.data) = Arr(batch.node_features).shape[1]
       /\ \A i \in 1..Len(graphs) : \A k \in 1..graphs[i].num_nodes :
            gi.data[NodesBefore(i) + k] = i - 1
       /\ \A k \in 1..(Len(gi.data) - 1) : gi.data[k] <= gi.data[k + 1]

C4_Witness ==
  /\ BatchOk
  /\ Len(graphs) = 3
  /\ \A i \in 1..3 : graphs[i].num_nodes >= 1
  /\ graphs[1].num_nodes # graphs[2].num_nodes

(***************************************************************************)
(* C5 (as stated).  The values occurring in graph_index are exactly        *)
(* 0..len(graphs)-1, also when some graph has no nodes.                    *)
(***************************************************************************)
C5_AllPositionsOccur ==
  BatchOk => Values(Arr(batch.graph_index).data) = 0..(Len(graphs) - 1)

(***************************************************************************)
(* C5 (amended).  The values occurring in graph_index are exactly the      *)
(* input positions of the graphs that have at least one node; they are     *)
(* all of 0..len(graphs)-1 exactly when no input graph is empty.           *)
(***************************************************************************)
C5_NonEmptyPositionsOccur ==
  BatchOk =>
    /\ Values(Arr(batch.graph_index).data) =
         {i - 1 : i \in {j \in 1..Len(graphs) : graphs[j].num_nodes >= 1}}
    /\ (Values(Arr(batch.graph_index).data) = 0..(Len(graphs) - 1))
         <=> (\A i \in 1..Len(graphs) : graphs[i].num_nodes >= 1)

C5_Witness ==
  /\ BatchOk
  /\ Len(graphs) = 3
  /\ graphs[1].num_nodes >= 1
  /\ graphs[2].num_nodes = 0
  /\ graphs[3].num_nodes >= 1

(***************************************************************************)
(* C6.  Every record whose construction succeeded has all its edge_index   *)
(* entries in [0, num_nodes): an entry out of that range is rejected.      *)
(***************************************************************************)
C6_EdgeReferencesValidated ==
  /\ \A i \in 1..Len(graphs) : EdgesInRange(graphs[i])
  /\ BatchOk => EdgesInRange(batch)

(***************************************************************************)
(* C7 (as stated).  Batching [g] gives g's four arrays back, equal in      *)
(* contents and in shape, and a graph_index of num_nodes zeros.            *)
(***************************************************************************)
SingleCommon ==
  /\ SameArray(Arr(batch.node_features), Arr(graphs[1].node_features))
  /\ SameArray(Arr(batch.edge_index), Arr(graphs[1].edge_index))
  /\ SameArray(Arr(batch.edge_features), Arr(graphs[1].edge_features))
  /\ Arr(batch.graph_index).data = [k \in 1..graphs[1].num_nodes |-> 0]

C7_SingleGraphSameShape ==
  (BatchOk /\ Len(graphs) = 1) =>
    /\ SingleCommon
    /\ IF graphs[1].graph_features = None
       THEN batch.graph_features = None
       ELSE /\ batch.graph_features # None
            /\ SameArray(Arr(batch.graph_features),
                         Arr(graphs[1].graph_features))

(***************************************************************************)
(* C7 (amended).  Batching [g] gives g's node_features, edge_index and     *)
(* edge_features back, equal in contents and in shape, and a graph_index   *)
(* of num_nodes zeros.  graph_features is absent when g has none, equal    *)
(* to g's when that is 2-D, and the 1 x k matrix whose only row is g's     *)
(* vector when that is a 1-D vector of k entries.                          *)
(***************************************************************************)
C7_SingleGraphFeaturesAsRow ==
  (BatchOk /\ Len(graphs) = 1) =>
    /\ SingleCommon
    /\ IF graphs[1].graph_features = None
       THEN batch.graph_features = None
       ELSE LET gf == Arr(graphs[1].graph_features)
                bf == Arr(batch.graph_features)
            IN /\ batch.graph_features # None
               /\ ndim(gf) = 2 => SameArray(bf, gf)
               /\ ndim(gf) = 1 =>
                    bf.shape = <<1, gf.shape[1]>> /\ bf.data = <<gf.data>>

C7_Witness ==
  /\ BatchOk
  /\ Len(graphs) = 1
  /\ graphs[1].num_nodes >= 2
  /\ graphs[1].num_edges >= 1
  /\ graphs[1].graph_features # None
  /\ ndim(Arr(graphs[1].graph_features)) = 1

(***************************************************************************)
(* C8.  GraphData(...) raises ValueError and returns no record whenever    *)
(* edge_index has a row count other than 2, or edge_features is given and  *)
(* its row count differs from the column count of edge_index.              *)
(***************************************************************************)
EdgeIndexRowsNotTwo ==
  /\ args[2] # None
  /\ Arr(args[2]).kind = "ndarray"
  /\ Arr(args[2]).shape[1] # 2

EdgeFeatureRowsDiffer ==
  /\ args[2] # None /\ args[3] # None
  /\ Arr(args[2]).kind = "ndarray" /\ ndim(Arr(args[2])) = 2
  /\ Arr(args[3]).kind = "ndarray"
  /\ Arr(args[3]).shape[1] # Arr(args[2]).shape[2]

C8_ShapeMismatchRejected ==
  (pc = "single" /\ (EdgeIndexRowsNotTwo \/ EdgeFeatureRowsDiffer)) =>
    raised = "ValueError" /\ graphs = <<>>

C8_Witness ==
  /\ pc = "single"
  /\ raised = "ValueError"
  /\ ~EdgeIndexRowsNotTwo
  /\ EdgeFeatureRowsDiffer
  /\ Arr(args[1]).kind = "ndarray" /\ ndim(Arr(args[1])) = 2
  /\ Arr(args[2]).dtype = "int"
  /\ ndim(Arr(args[3])) = 2
  /\ Arr(args[3]).shape[1] = 2

(***************************************************************************)
(* C9.  BatchGraphData(graphs) changes none of its inputs, whether it      *)
(* returns or raises: every array that existed before the call holds the   *)
(* same value after it, and the records of the list are the same.          *)
(***************************************************************************)
C9_InputsNotMutated ==
  [][pc' = "done" =>
       /\ graphs' = graphs
       /\ \A r \in DOMAIN heap : heap'[r] = heap[r]]_vars

C9_Witness ==
  /\ BatchOk
  /\ Len(graphs) >= 2
  /\ graphs[1].num_nodes >= 1
  /\ graphs[2].num_edges >= 1

C9_WitnessRaised ==
  /\ pc = "done"
  /\ raised = "ValueError"
  /\ Len(graphs) >= 2
  /\ graphs[1].num_nodes >= 1
  /\ graphs[2].num_edges >= 1

(***************************************************************************)
(* C10.  The batched record has as many nodes as the inputs together and   *)
(* as many edges as the inputs together.                                   *)
(***************************************************************************)
C10_CountsAdd ==
  BatchOk =>
    /\ batch.num_nodes = SumSeq([i \in 1..Len(graphs) |-> graphs[i].num_nodes])
    /\ batch.num_edges = SumSeq([i \in 1..Len(graphs) |-> graphs[i].num_edges])
    /\ batch.num_nodes =
         SumSeq([i \in 1..Len(graphs) |-> Arr(graphs[i].node_features).shape[1]])
    /\ batch.num_edges =
         SumSeq([i \in 1..Len(graphs) |-> Arr(graphs[i].edge_index).shape[2]])

C10_Witness ==
  /\ BatchOk
  /\ Len(graphs) = 3
  /\ \A i \in 1..3 : graphs[i].num_nodes >= 1 /\ graphs[i].num_edges >= 1

=============================================================================
